---- MODULE Spec2Model ----
(***************************************************************************)
(* Order fulfilment of the lootamo backend: payment webhook and its        *)
(* signature check, the G2A multi-item flow, the legacy single-item flow,  *)
(* on-demand key retrieval, the background key retries, admin status       *)
(* changes, the expiry of pending orders, the email queue and its sweep,   *)
(* and the error log.                                                      *)
(*                                                                         *)
(* Granularity.  The handlers are asyncio coroutines over a synchronous    *)
(* SQLAlchemy session: a handler runs without interruption from one        *)
(* awaited external call (G2A create / pay / key, asyncio.sleep) to the    *)
(* next.  One action of the model is one such segment: it takes the        *)
(* response of the call in flight, runs the handler up to the next awaited *)
(* call (or to its return) and commits what the code commits on the way.   *)
(* Attribute reads are taken from the committed rows at the time of the    *)
(* segment.                                                                *)
(*                                                                         *)
(* Order 1 is a multi-item order (items 1 and 2); order 2 is an order that *)
(* has no order_items.  In SpecLegacy it is paid and goes through the      *)
(* legacy single-item flow and its retry task; in the other specifications *)
(* no payment event refers to it (it is there for the admin operations and *)
(* the expiry sweep).                                                      *)
(***************************************************************************)
EXTENDS Integers, Sequences, FiniteSets, TLC

None == "none"

Orders == {1, 2}
Items == {1, 2}                       \* the order_items of order 1, in id order
Procs == {1, 2}                       \* concurrently running request handlers / tasks
Intents == {"pi_1", "pi_2"}           \* Stripe PaymentIntent ids
MetaIds == {0, 1, 9}                  \* metadata.order_id: absent, order 1, no such order

\* ---- bounds of the model ----
MaxOps == 2                           \* operations started in one run of Spec
MaxReplayOps == 3                     \* ... of SpecReplay
MaxRetryOps == 2                      \* ... of SpecRetry
MaxAdminOps == 2                      \* ... of SpecAdmin
MaxSweepOps == 2                      \* ... of SpecSweep
MaxErrOps == 4                        \* ... of SpecErr
MaxLegacyOps == 2                     \* ... of SpecLegacy
MaxWebhookOps == 2                    \* ... of SpecWebhook
MaxEmailOps == 2                      \* requests and worker stops in SpecEmail
MaxRows == 2                          \* rows of the queue in SpecQueue
MaxRaceOps == 2                       \* ... of SpecRace
MaxLockOps == 3                       \* ... of SpecLock
MaxBackoffAttempts == 4               \* failed attempts of one task in SpecBackoff
MaxSendOps == 3                       \* calls of send_email in SpecSend
MaxNow == 48                          \* the clock stops here (hours)

\* ---- program constants ----
ExpiryHours == 24
TickHours == ExpiryHours \div 2        \* the clock's step
ItemRetryMax == 5
KeysMaxRetries == 3
QueueMaxRetries == 3

OrderStatus == {"pending", "paid", "complete", "cancelled", "expired"}
PaymentStatus == {"pending", "paid", "failed"}

\* What get_g2a_order_key hands to its callers.
\*   KEY    a 200 body with a "key" field          KEYS   a 200 body with a "keys" list
\*   NONE   None (200 without key, unparsable)     ORD01/ORD03/ORD04  the provider's codes
\*   API    API_UNAVAILABLE / API_ERROR / UNKNOWN_RESPONSE (timeouts, transport errors)
\*   HTTP_402, OTHER   any other error code
KeyResponses == {"KEY", "KEYS", "NONE", "ORD01", "ORD03", "ORD04", "API", "HTTP_402", "OTHER"}
CreateResponses == {"ok", "no_id", "raise"}
PayResponses == {"ok", "none", "raise"}

VARIABLES
    orders,       \* [Orders -> [status, payment_status, stripe_payment_intent_id, created_at,
                  \*            g2a_order_id, g2a_transaction_id, delivered_key (legacy fields)]]
    items,        \* [Items -> [g2a_order_id, g2a_transaction_id, delivered_key, status]]
    emailQueue,   \* sequence of email_queue rows
    retryLog,     \* sequence of retry_logs rows
    errorLog,     \* sequence of error_logs rows
    procs,        \* [Procs -> the handler or task running in that slot and its call in flight]
    script,       \* [Items -> the sets of key responses G2A may give next, the last one repeating]
    now,          \* the clock, in hours
    budget,       \* operations that may still be started
    paidCount,    \* number of times handle_payment_success changed order 1's status into paid
    logged,       \* [ErrKeys -> log_error calls since an entry of that key was last resolved]
    lastOp        \* the operation the last step belonged to

vars == <<orders, items, emailQueue, retryLog, errorLog, procs, script, now, budget,
          paidCount, logged, lastOp>>

Idle == [op |-> "idle", call |-> None, item |-> 0, attempt |-> 0, log |-> 0,
         ready |-> {}, pend |-> {}, imp |-> FALSE, session |-> None]

\* ------------------------------------------------------------------------
\* The rows a handler reads and writes, passed through the pure operators.
\* ------------------------------------------------------------------------
Db == [orders |-> orders, items |-> items, emailQueue |-> emailQueue, retryLog |-> retryLog]

SetItemStatus(db, i, s) == [db EXCEPT !.items[i].status = s]

AllItemsComplete(its) == \A i \in Items : its[i].status = "complete"

\* PaymentService._update_order_status_if_all_items_complete (order 1 has items)
UpdateOrderStatusIfAllItemsComplete(db) ==
    IF AllItemsComplete(db.items) /\ db.orders[1].status # "complete"
    THEN [db EXCEPT !.orders[1].status = "complete"]
    ELSE IF ~AllItemsComplete(db.items) /\ db.orders[1].status = "complete"
         THEN [db EXCEPT !.orders[1].status = "paid"]
         ELSE db

\* simple_email_queue_service.queue_email: a plain INSERT, status pending, attempts 0
EmailTypes == {"license_key", "multi_license_key"}

\* created_at is the number of the row in insertion order
EmailRow(o, type, priority, seq) ==
    [order_id |-> o, email_type |-> type, status |-> "pending", attempts |-> 0,
     priority |-> priority, max_retries |-> QueueMaxRetries, next_retry_at |-> None,
     created_at |-> seq]

\* EmailService.send_license_key_email / send_multi_license_key_email on order 1
QueueEmail(q, type) == Append(q, EmailRow(1, type, 1, Len(q) + 1))

ItemsWithKeys(its) == {i \in Items : its[i].delivered_key # None}

\* PaymentService._send_order_email_notification
SendOrderEmailNotification(db) ==
    LET n == Cardinality(ItemsWithKeys(db.items)) IN
    IF n = 0 THEN db
    ELSE IF n = 1 THEN [db EXCEPT !.emailQueue = QueueEmail(@, "license_key")]
    ELSE [db EXCEPT !.emailQueue = QueueEmail(@, "multi_license_key")]

EmailRowsOf(q, o) == {k \in 1..Len(q) : q[k].order_id = o}

\* handle_payment_success, lines 203-212: queue the notification unless a row exists
HookSendEmails(db) ==
    IF EmailRowsOf(db.emailQueue, 1) = {} THEN SendOrderEmailNotification(db) ELSE db

\* a handler without the short path for processed orders
NeedsG2AProcessingAlways(its) == TRUE

\* handle_payment_success, lines 163-173: does any item still need the G2A flow
NeedsG2AProcessing(its) ==
    \E i \in Items :
        \/ its[i].g2a_order_id = None /\ its[i].status # "complete"
        \/ its[i].g2a_order_id # None /\ its[i].delivered_key = None
              /\ its[i].status # "complete"

\* ------------------------------------------------------------------------
\* PaymentService._process_multi_item_g2a_flow, from one awaited call to the
\* next.  A result names the rows as committed and the call now in flight
\* (call = None: the loop over the items has ended).
\* ------------------------------------------------------------------------
RECURSIVE FlowFromItem(_, _)

\* line 354: fetch the key, else (line 425) mark the item failed and go on
FlowAfterPay(db, i) ==
    IF db.items[i].g2a_order_id # None /\ db.items[i].delivered_key = None
          /\ db.items[i].status # "complete"
    THEN [db |-> db, call |-> "fetch", item |-> i]
    ELSE FlowFromItem(SetItemStatus(db, i, "failed"), i + 1)

\* a flow that pays every item that has a G2A order id
FlowAfterCreateAlwaysPay(db, i) ==
    IF db.items[i].g2a_order_id # None
    THEN [db |-> db, call |-> "pay", item |-> i]
    ELSE FlowAfterPay(db, i)

\* line 344: pay unless a transaction id is stored
FlowAfterCreate(db, i) ==
    IF db.items[i].g2a_order_id # None /\ db.items[i].g2a_transaction_id = None
    THEN [db |-> db, call |-> "pay", item |-> i]
    ELSE FlowAfterPay(db, i)

\* line 323/327: next item; create the G2A order unless its id is stored
FlowFromItem(db, i) ==
    IF i \notin Items THEN [db |-> db, call |-> None, item |-> 0]
    ELSE IF db.items[i].g2a_order_id = None
         THEN [db |-> db, call |-> "create", item |-> i]
         ELSE FlowAfterCreate(db, i)

\* lines 333-342 and the except branch at 430
FlowOnCreate(db, i, r) ==
    IF r = "ok"
    THEN FlowAfterCreate([db EXCEPT !.items[i].g2a_order_id = "g2a",
                                    !.items[i].status = "processing"], i)
    ELSE FlowFromItem(SetItemStatus(db, i, "failed"), i + 1)

\* lines 346-351 and the except branch at 430
FlowOnPay(db, i, r) ==
    IF r = "ok" THEN FlowAfterPay([db EXCEPT !.items[i].g2a_transaction_id = "txn"], i)
    ELSE IF r = "none" THEN FlowAfterPay(db, i)
    ELSE FlowFromItem(SetItemStatus(db, i, "failed"), i + 1)

StoreKey(db, i, k) ==
    [db EXCEPT !.items[i].delivered_key = k, !.items[i].status = "complete"]

\* lines 361-424: the key response classified
FlowOnFetch(db, i, r) ==
    IF r \in {"KEY", "KEYS"}
    THEN FlowFromItem(UpdateOrderStatusIfAllItemsComplete(StoreKey(db, i, "key")), i + 1)
    ELSE IF r = "ORD04" THEN [db |-> db, call |-> "fresh", item |-> i]
    ELSE IF r \in {"ORD03", "API"} THEN FlowFromItem(SetItemStatus(db, i, "pending_key"), i + 1)
    ELSE IF r = "ORD01" THEN FlowFromItem(SetItemStatus(db, i, "failed"), i + 1)
    ELSE FlowFromItem(SetItemStatus(db, i, "key_error"), i + 1)

\* lines 402-412: ORD04, the fresh query; only a body with a "key" field is used
FlowOnFresh(db, i, r) ==
    LET k == IF r = "KEY" THEN "key" ELSE "KEY_ALREADY_DELIVERED_ORD04" IN
    FlowFromItem(UpdateOrderStatusIfAllItemsComplete(StoreKey(db, i, k)), i + 1)

\* ------------------------------------------------------------------------
\* PaymentService.get_multi_item_license_keys (on-demand retrieval).
\* A result names the rows, the call in flight and the two result lists.
\* ------------------------------------------------------------------------
KeysDone(db, ready, pend, res) ==
    [db |-> db, call |-> None, item |-> 0, attempt |-> 0, ready |-> ready, pend |-> pend,
     result |-> res]

\* lines 891-905: nothing ready is an error; else queue the email and answer
KeysFinish(db, ready, pend) ==
    IF pend # {} /\ ready = {} THEN KeysDone(db, ready, pend, "KEYS_NOT_READY")
    ELSE IF ready # {} THEN KeysDone(SendOrderEmailNotification(db), ready, pend, "ok")
    ELSE KeysDone(db, ready, pend, "ok")

RECURSIVE KeysFromItem(_, _, _, _)
\* lines 785-797 and 883-889
KeysFromItem(db, i, ready, pend) ==
    IF i \notin Items THEN KeysFinish(db, ready, pend)
    ELSE IF db.items[i].delivered_key # None
         THEN KeysFromItem(db, i + 1, ready \cup {i}, pend)
    ELSE IF db.items[i].g2a_order_id # None
         THEN [db |-> db, call |-> "fetch", item |-> i, attempt |-> 0, ready |-> ready,
               pend |-> pend, result |-> None]
    ELSE KeysFromItem(db, i + 1, ready, pend \cup {i})

\* lines 836-882: after the attempts, r being the last response
KeysAfterLoop(db, i, r, ready, pend) ==
    IF r \in {"KEY", "KEYS"}
    THEN KeysFromItem(StoreKey(db, i, "key"), i + 1, ready \cup {i}, pend)
    ELSE IF r = "ORD04"
    THEN KeysFromItem(StoreKey(db, i, "KEY_ALREADY_DELIVERED_ORD04"), i + 1,
                      ready \cup {i}, pend)
    ELSE IF r = "HTTP_402"
    THEN KeysFromItem(SetItemStatus(db, i, "key_error"), i + 1, ready, pend \cup {i})
    ELSE KeysFromItem(db, i + 1, ready, pend \cup {i})

KeysAgain(db, i, a, ready, pend) ==
    [db |-> db, call |-> "fetch", item |-> i, attempt |-> a + 1, ready |-> ready,
     pend |-> pend, result |-> None]

\* an inline retry that allows one attempt more
KeysOnFetchOneMore(db, i, a, r, ready, pend, imp) ==
    IF r = "ORD03" /\ a < KeysMaxRetries THEN KeysAgain(db, i, a, ready, pend)
    ELSE KeysAfterLoop(db, i, r, ready, pend)

\* lines 802-834: one attempt of the inline retry.  imp: the function-local
\* "import asyncio" (line 817, in the ORD03 branch) has run in this invocation;
\* line 826 uses asyncio without it and the error leaves the function (line 907).
KeysOnFetch(db, i, a, r, ready, pend, imp) ==
    IF r = "ORD03" /\ a < KeysMaxRetries - 1 THEN KeysAgain(db, i, a, ready, pend)
    ELSE IF r = "NONE" /\ a < KeysMaxRetries - 1
    THEN IF imp THEN KeysAgain(db, i, a, ready, pend)
         ELSE KeysDone(db, ready, pend, "INTERNAL_ERROR")
    ELSE KeysAfterLoop(db, i, r, ready, pend)

\* ------------------------------------------------------------------------
\* G2ARetryService.retry_license_key_retrieval_for_item, as its text reads
\* (the try at line 286 has no except of its own; the else at line 332 only
\* logs).  After a key the loop goes on (no return); any other response
\* reaches line 319, whose error_code is unbound: the NameError is caught at
\* line 336 and the attempt ends without a write.
\* ------------------------------------------------------------------------
RetryLogRow(i, a) ==
    [order_item_id |-> i, retry_type |-> "license_key", attempt_number |-> a + 1,
     max_attempts |-> ItemRetryMax, status |-> "pending"]

\* RetryLogService.update_retry_log through log_license_key_retry_result
LogRetryResult(db, log, ok) ==
    IF log = 0 THEN db
    ELSE [db EXCEPT !.retryLog[log].status = IF ok THEN "success" ELSE "failed"]

\* _send_license_key_email_for_item: the item has its key here
SendLicenseKeyEmailForItem(db) ==
    IF Cardinality(Items) > 1
    THEN [db EXCEPT !.emailQueue = QueueEmail(@, "multi_license_key")]
    ELSE [db EXCEPT !.emailQueue = QueueEmail(@, "license_key")]

\* lines 347-370: the attempts are used up
RetryExhausted(db, i, log) ==
    [db |-> SetItemStatus(LogRetryResult(db, log, FALSE), i, "failed"),
     call |-> None, attempt |-> 0, log |-> log, result |-> "exhausted"]

\* lines 263-287: the start of attempt a (0-based): log once, then fetch
RetryAttempt(db, i, a, log) ==
    IF db.items[i].g2a_order_id = None
    THEN [db |-> db, call |-> None, attempt |-> a, log |-> log, result |-> "no_g2a_order"]
    ELSE IF log = 0
    THEN [db |-> [db EXCEPT !.retryLog = Append(@, RetryLogRow(i, a))],
          call |-> "fetch", attempt |-> a, log |-> Len(db.retryLog) + 1, result |-> None]
    ELSE [db |-> db, call |-> "fetch", attempt |-> a, log |-> log, result |-> None]

\* lines 289-345: the response of attempt a, then the next attempt or the end
RetryOnFetch(db, i, a, log, r) ==
    LET db1 == IF r \in {"KEY", "KEYS"}
               THEN SendLicenseKeyEmailForItem(UpdateOrderStatusIfAllItemsComplete(
                        LogRetryResult(StoreKey(db, i, "key"), log, TRUE)))
               ELSE db
    IN IF a < ItemRetryMax - 1 THEN RetryAttempt(db1, i, a + 1, log)
       ELSE RetryExhausted(db1, i, log)

\* ------------------------------------------------------------------------
\* State changes shared by the actions
\* ------------------------------------------------------------------------
Commit(db) ==
    /\ orders' = db.orders
    /\ items' = db.items
    /\ emailQueue' = db.emailQueue
    /\ retryLog' = db.retryLog

OpOn(name, result, i) == lastOp' = [name |-> name, result |-> result, item |-> i]
Op(name, result) == OpOn(name, result, 0)

KeyResponsesFor(i) == Head(script[i])
Consume(i) == script' = [script EXCEPT ![i] = IF Len(@) > 1 THEN Tail(@) ELSE @]

InFlight(p, op, call) == procs[p].op = op /\ procs[p].call = call

\* A new handler or task takes the first idle slot (the slots are interchangeable).
FreeSlot(p) == procs[p].op = "idle" /\ \A q \in Procs : q < p => procs[q].op # "idle"

\* ------------------------------------------------------------------------
\* PaymentService.create_payment_intent (order 1)
\* ------------------------------------------------------------------------
CreatePaymentIntent(pi) ==
    /\ budget > 0
    /\ budget' = budget - 1
    /\ IF orders[1].payment_status # "pending"
       THEN /\ Op("create_intent", "error")
            /\ UNCHANGED orders
       ELSE /\ Op("create_intent", "ok")
            /\ orders' = [orders EXCEPT ![1].stripe_payment_intent_id = pi]
    /\ UNCHANGED <<items, emailQueue, retryLog, errorLog, procs, script, now,
                   paidCount, logged>>

\* ------------------------------------------------------------------------
\* PaymentService.handle_payment_success, up to its first awaited call
\* ------------------------------------------------------------------------
HookProc(flow) ==
    [Idle EXCEPT !.op = "hook", !.call = flow.call, !.item = flow.item]

\* the end of handle_payment_success (lines 203-232) once the flow has ended
HookContinue(p, flow) ==
    IF flow.call = None
    THEN /\ Commit(HookSendEmails(flow.db))
         /\ procs' = [procs EXCEPT ![p] = Idle]
    ELSE /\ Commit(flow.db)
         /\ procs' = [procs EXCEPT ![p] = HookProc(flow)]

MarkPaid(db) ==
    [db EXCEPT !.orders[1].payment_status = "paid", !.orders[1].status = "paid"]

HandlePaymentSuccess(p, db) ==
    LET skip == db.orders[1].payment_status = "paid" /\ ~NeedsG2AProcessing(db.items)
        db1 == MarkPaid(db)
        flow == IF skip THEN [db |-> db1, call |-> None, item |-> 0]
                ELSE FlowFromItem(db1, 1)
    IN /\ HookContinue(p, flow)
       /\ paidCount' = paidCount + (IF db.orders[1].status # "paid" THEN 1 ELSE 0)

\* linking whatever order the metadata names, also one that has an intent
OrphanOrderAnyIntent(ords, meta) == meta \in Orders

\* stripe_webhook, lines 195-196: the order the metadata names, if it has no intent yet
OrphanOrder(ords, meta) ==
    meta \in Orders /\ ords[meta].stripe_payment_intent_id = None

\* stripe_webhook, payment_intent.succeeded (lines 150-218)
WebhookSucceeded(p, pi, meta) ==
    /\ budget > 0
    /\ FreeSlot(p)
    /\ budget' = budget - 1
    /\ IF \E o \in Orders : orders[o].stripe_payment_intent_id = pi
       THEN /\ HandlePaymentSuccess(p, Db)
            /\ Op("webhook", "found")
       ELSE IF OrphanOrder(orders, meta)
       THEN /\ HandlePaymentSuccess(p, [Db EXCEPT !.orders[meta].stripe_payment_intent_id = pi])
            /\ Op("webhook", "linked")
       ELSE /\ Op("webhook", "dropped")
            /\ UNCHANGED <<orders, items, emailQueue, retryLog, procs, paidCount>>
    /\ UNCHANGED <<errorLog, script, now, logged>>

\* a failure handler that also gives the order up
MarkFailedAndCancelled(ords, o) ==
    [ords EXCEPT ![o].payment_status = "failed", ![o].status = "cancelled"]

\* handle_payment_failed, line 602: the one write
MarkFailed(ords, o) == [ords EXCEPT ![o].payment_status = "failed"]

\* PaymentService.handle_payment_failed through stripe_webhook (lines 220-225)
WebhookFailed(pi) ==
    /\ budget > 0
    /\ budget' = budget - 1
    /\ IF \E o \in Orders : orders[o].stripe_payment_intent_id = pi
       THEN LET o == CHOOSE x \in Orders : orders[x].stripe_payment_intent_id = pi
            IN /\ orders' = MarkFailed(orders, o)
               /\ Op("payment_failed", "ok")
       ELSE /\ UNCHANGED orders
            /\ Op("payment_failed", "not_found")
    /\ UNCHANGED <<items, emailQueue, retryLog, errorLog, procs, script, now,
                   paidCount, logged>>

\* ------------------------------------------------------------------------
\* stripe_webhook: the signature check in front of the event handling
\* ------------------------------------------------------------------------
\* the stripe-signature header of a request: verifies, does not verify, or absent
SignatureHeaders == {"valid", "invalid", "missing"}
EventTypes == {"payment_intent.succeeded", "payment_intent.payment_failed"}

\* lines 87-141: without the header the payload is parsed and taken as the event
SignatureAccepted(sig) == sig # "invalid"

StripeWebhook(p, sig, type, pi, meta) ==
    IF SignatureAccepted(sig)
    THEN \/ type = "payment_intent.succeeded" /\ WebhookSucceeded(p, pi, meta)
         \/ type = "payment_intent.payment_failed" /\ WebhookFailed(pi)
    ELSE /\ budget > 0
         /\ budget' = budget - 1
         /\ Op("webhook", "rejected")
         /\ UNCHANGED <<orders, items, emailQueue, retryLog, errorLog, procs, script, now,
                        paidCount, logged>>

\* The G2A flow resumes on the response of its call in flight.
HookCreateResp(p, r) ==
    /\ InFlight(p, "hook", "create")
    /\ HookContinue(p, FlowOnCreate(Db, procs[p].item, r))
    /\ Op("hook_step", "ok")
    /\ UNCHANGED <<errorLog, script, now, budget, paidCount, logged>>

HookPayResp(p, r) ==
    /\ InFlight(p, "hook", "pay")
    /\ HookContinue(p, FlowOnPay(Db, procs[p].item, r))
    /\ Op("hook_step", "ok")
    /\ UNCHANGED <<errorLog, script, now, budget, paidCount, logged>>

HookFetchResp(p, r) ==
    /\ InFlight(p, "hook", "fetch")
    /\ r \in KeyResponsesFor(procs[p].item)
    /\ Consume(procs[p].item)
    /\ HookContinue(p, FlowOnFetch(Db, procs[p].item, r))
    /\ Op("hook_step", "ok")
    /\ UNCHANGED <<errorLog, now, budget, paidCount, logged>>

HookFreshResp(p, r) ==
    /\ InFlight(p, "hook", "fresh")
    /\ r \in KeyResponsesFor(procs[p].item)
    /\ Consume(procs[p].item)
    /\ HookContinue(p, FlowOnFresh(Db, procs[p].item, r))
    /\ Op("hook_step", "ok")
    /\ UNCHANGED <<errorLog, now, budget, paidCount, logged>>

\* ------------------------------------------------------------------------
\* get_multi_item_license_keys as a request
\* ------------------------------------------------------------------------
KeysContinue(p, res, imp) ==
    /\ Commit(res.db)
    /\ IF res.call = None
       THEN /\ procs' = [procs EXCEPT ![p] = Idle]
            /\ Op("keys", res.result)
       ELSE /\ procs' = [procs EXCEPT ![p] =
                            [Idle EXCEPT !.op = "keys", !.call = res.call, !.item = res.item,
                                         !.attempt = res.attempt, !.ready = res.ready,
                                         !.pend = res.pend, !.imp = imp]]
            /\ Op("keys", "running")

GetMultiItemLicenseKeys(p) ==
    /\ budget > 0
    /\ FreeSlot(p)
    /\ budget' = budget - 1
    /\ IF orders[1].payment_status # "paid"
       THEN /\ Op("keys", "ORDER_NOT_PAID")
            /\ UNCHANGED <<orders, items, emailQueue, retryLog, procs>>
       ELSE KeysContinue(p, KeysFromItem(Db, 1, {}, {}), FALSE)
    /\ UNCHANGED <<errorLog, script, now, paidCount, logged>>

KeysFetchResp(p, r) ==
    /\ InFlight(p, "keys", "fetch")
    /\ r \in KeyResponsesFor(procs[p].item)
    /\ Consume(procs[p].item)
    /\ KeysContinue(p, KeysOnFetch(Db, procs[p].item, procs[p].attempt, r, procs[p].ready,
                                   procs[p].pend, procs[p].imp),
                    procs[p].imp \/ (r = "ORD03" /\ procs[p].attempt < KeysMaxRetries - 1))
    /\ UNCHANGED <<errorLog, now, budget, paidCount, logged>>

\* ------------------------------------------------------------------------
\* retry_license_key_retrieval_for_item as a background task
\* ------------------------------------------------------------------------
RetryContinue(p, i, res) ==
    /\ Commit(res.db)
    /\ IF res.call = None
       THEN /\ procs' = [procs EXCEPT ![p] = Idle]
            /\ OpOn("retry", res.result, i)
       ELSE /\ procs' = [procs EXCEPT ![p] =
                            [Idle EXCEPT !.op = "retry", !.call = res.call, !.item = i,
                                         !.attempt = res.attempt, !.log = res.log]]
            /\ OpOn("retry", "running", i)

RetryStart(p, i) ==
    /\ budget > 0
    /\ FreeSlot(p)
    /\ budget' = budget - 1
    /\ RetryContinue(p, i, RetryAttempt(Db, i, 0, 0))
    /\ UNCHANGED <<errorLog, script, now, paidCount, logged>>

RetryFetchResp(p, r) ==
    /\ InFlight(p, "retry", "fetch")
    /\ r \in KeyResponsesFor(procs[p].item)
    /\ Consume(procs[p].item)
    /\ RetryContinue(p, procs[p].item,
                     RetryOnFetch(Db, procs[p].item, procs[p].attempt, procs[p].log, r))
    /\ UNCHANGED <<errorLog, now, budget, paidCount, logged>>

\* ------------------------------------------------------------------------
\* OrderService: admin status change, cancellation, expiry of pending orders
\* ------------------------------------------------------------------------
\* a status change without the complete -> pending guard
UpdateOrderStatusResultUnguarded(o, s) == "ok"

\* update_order_status, lines 371-384 (status is one of the enum's values)
UpdateOrderStatusResult(o, s) ==
    IF o.status = "complete" /\ s = "pending" THEN "error" ELSE "ok"

UpdateOrderStatus(o, s) ==
    /\ budget > 0
    /\ budget' = budget - 1
    /\ LET res == UpdateOrderStatusResult(orders[o], s) IN
       /\ Op("update_status", res)
       /\ IF res = "ok"
          THEN Commit([Db EXCEPT !.orders[o].status = s])
          ELSE UNCHANGED <<orders, items, emailQueue, retryLog>>
    /\ UNCHANGED <<errorLog, procs, script, now, paidCount, logged>>

\* cancel_order, lines 407-419
CancelOrderResult(o) == IF o.status # "pending" THEN "error" ELSE "ok"

CancelOrder(o) ==
    /\ budget > 0
    /\ budget' = budget - 1
    /\ LET res == CancelOrderResult(orders[o]) IN
       /\ Op("cancel", res)
       /\ IF res = "ok"
          THEN orders' = [orders EXCEPT ![o].status = "cancelled"]
          ELSE UNCHANGED orders
    /\ UNCHANGED <<items, emailQueue, retryLog, errorLog, procs, script, now,
                   paidCount, logged>>

\* a sweep that also takes the orders aged exactly ExpiryHours
OrdersToExpireFromAge(ords, t) ==
    {o \in Orders : ords[o].status = "pending" /\ ords[o].created_at <= t - ExpiryHours}

\* expire_pending_orders, lines 199-214: the rows the query selects
OrdersToExpire(ords, t) ==
    {o \in Orders : ords[o].status = "pending" /\ ords[o].created_at < t - ExpiryHours}

ExpirePendingOrdersOf(ords, t) ==
    [o \in Orders |-> IF o \in OrdersToExpire(ords, t)
                      THEN [ords[o] EXCEPT !.status = "expired"] ELSE ords[o]]

\* CleanupService.expire_all_pending_orders
ExpireAllPendingOrders ==
    /\ budget > 0
    /\ budget' = budget - 1
    /\ orders' = ExpirePendingOrdersOf(orders, now)
    /\ Op("sweep", "ok")
    /\ UNCHANGED <<items, emailQueue, retryLog, errorLog, procs, script, now,
                   paidCount, logged>>

Tick ==
    /\ now + TickHours <= MaxNow
    /\ now' = now + TickHours
    /\ Op("tick", "ok")
    /\ UNCHANGED <<orders, items, emailQueue, retryLog, errorLog, procs, script, budget,
                   paidCount, logged>>

\* ------------------------------------------------------------------------
\* ErrorLogService
\* ------------------------------------------------------------------------
ErrKeys ==
    [error_type : {"G2A_KEY_RETRIEVAL_FAILURE"}, error_message : {"timeout"},
     source_system : {"g2a"}, source_function : {"get_g2a_order_key", "pay_g2a_order"},
     error_code : {None, "ORD03"}]
Severities == {"warning", "error", "critical"}

\* lines 47-57: sha256 over the five fields, taken as collision-free
DuplicateHash(k) ==
    <<k.error_type, k.error_message, k.source_system, k.source_function, k.error_code>>

\* lines 60-63: the first unresolved row with this hash, 0 if there is none
ExistingError(log, h) ==
    LET hits == {n \in 1..Len(log) : log[n].duplicate_hash = h /\ ~log[n].is_resolved}
    IN IF hits = {} THEN 0 ELSE CHOOSE n \in hits : \A m \in hits : n <= m

\* lines 83-96
NewErrorLog(k, sev) ==
    [duplicate_hash |-> DuplicateHash(k), key |-> k, severity |-> sev, duplicate_count |-> 1,
     is_quarantined |-> (sev = "critical"), is_resolved |-> FALSE,
     recovery_status |-> "pending"]

\* a log without duplicate detection
LogErrorOneRowEach(log, k, sev) == Append(log, NewErrorLog(k, sev))

\* log_error, lines 47-102
LogErrorRows(log, k, sev) ==
    LET n == ExistingError(log, DuplicateHash(k)) IN
    IF n # 0 THEN [log EXCEPT ![n].duplicate_count = @ + 1]
    ELSE Append(log, NewErrorLog(k, sev))

LogError(k, sev) ==
    /\ budget > 0
    /\ budget' = budget - 1
    /\ errorLog' = LogErrorRows(errorLog, k, sev)
    /\ logged' = [logged EXCEPT ![k] = @ + 1]
    /\ Op("log_error", "ok")
    /\ UNCHANGED <<orders, items, emailQueue, retryLog, procs, script, now, paidCount>>

\* update_recovery_status, lines 147-165
UpdateRecoveryStatus(n, status, resolved) ==
    /\ budget > 0
    /\ n \in 1..Len(errorLog)
    /\ budget' = budget - 1
    /\ errorLog' = [errorLog EXCEPT ![n].recovery_status = status,
                                    ![n].is_resolved = @ \/ resolved]
    /\ logged' = IF resolved /\ ~errorLog[n].is_resolved
                 THEN [logged EXCEPT ![errorLog[n].key] = 0] ELSE logged
    /\ Op("update_recovery", "ok")
    /\ UNCHANGED <<orders, items, emailQueue, retryLog, procs, script, now,
                   paidCount>>

\* ------------------------------------------------------------------------
\* The legacy single-item flow (an order without order_items) and its retry
\* task.  The handler writes the order through its session and commits only
\* where the code commits: after marking the order paid, and in clear_cart
\* when the cart still has rows; what is left in the session when the request
\* ends is rolled back by get_db.  The retry task opens a session of its own
\* for every attempt and reads the committed row.
\* ------------------------------------------------------------------------
LegacyOrder == 2
LegacyMaxRetries == 12
LegacyKeyResponses == KeyResponses \cup {"ORD05"}

\* EmailService.send_license_key_email: one queued row for the legacy order
LegacyQueueEmail(q) ==
    Append(q, EmailRow(LegacyOrder, "license_key", 1, Len(q) + 1))

LegacyNeedsG2AProcessing(o) == o.g2a_order_id # None /\ o.delivered_key = None

\* handle_payment_success, lines 203-232, for the session's order s: no item has
\* a key, so no email is queued; clear_cart commits when it deletes cart rows
LegacySessionEnd(ords, s, cart) ==
    IF s.payment_status = "paid" /\ s.status = "complete" /\ cart
    THEN [ords EXCEPT ![LegacyOrder] = s]
    ELSE ords

LegacyHookEnd(p, s, cart) ==
    /\ procs' = [procs EXCEPT ![p] = Idle]
    /\ orders' = LegacySessionEnd(orders, s, cart)

LegacyHookCall(p, s, call) ==
    /\ procs' = [procs EXCEPT ![p] = [Idle EXCEPT !.op = "legacy_hook", !.call = call,
                                                  !.session = s]]
    /\ UNCHANGED orders

\* stripe_webhook, payment_intent.succeeded without order metadata, on the legacy
\* order: handle_payment_success up to the first call of _process_g2a_payment_flow
LegacyWebhookSucceeded(pi) ==
    /\ budget > 0
    /\ \A p \in Procs : procs[p].op = "idle"
    /\ budget' = budget - 1
    /\ IF orders[LegacyOrder].stripe_payment_intent_id = pi
       THEN LET o == orders[LegacyOrder]
                skip == o.payment_status = "paid" /\ ~LegacyNeedsG2AProcessing(o)
                s == [o EXCEPT !.payment_status = "paid", !.status = "paid"]
            IN /\ orders' = [orders EXCEPT ![LegacyOrder] = s]
               /\ procs' = [procs EXCEPT ![1] =
                     IF skip THEN Idle
                     ELSE [Idle EXCEPT !.op = "legacy_hook", !.session = s,
                              !.call = IF s.g2a_order_id = None THEN "create" ELSE "pay"]]
               /\ Op("webhook", "found")
       ELSE /\ Op("webhook", "dropped")
            /\ UNCHANGED <<orders, procs>>
    /\ UNCHANGED <<items, emailQueue, retryLog, errorLog, script, now, paidCount, logged>>

\* _process_g2a_payment_flow, lines 248-259: the answer of create_g2a_order
LegacyCreateResp(p, r, cart) ==
    /\ InFlight(p, "legacy_hook", "create")
    /\ IF r = "ok"
       THEN LegacyHookCall(p, [procs[p].session EXCEPT !.g2a_order_id = "g2a"], "pay")
       ELSE LegacyHookEnd(p, procs[p].session, cart)
    /\ Op("legacy_step", "ok")
    /\ UNCHANGED <<items, emailQueue, retryLog, errorLog, script, now, budget,
                   paidCount, logged>>

\* lines 261-271 and 307-308: the answer of pay_g2a_order
LegacyPayResp(p, r, cart) ==
    /\ InFlight(p, "legacy_hook", "pay")
    /\ IF r = "ok"
       THEN LegacyHookCall(p, [procs[p].session EXCEPT !.g2a_transaction_id = "txn",
                                                      !.status = "complete"], "fetch")
       ELSE LegacyHookEnd(p, procs[p].session, cart)
    /\ Op("legacy_step", "ok")
    /\ UNCHANGED <<items, emailQueue, retryLog, errorLog, script, now, budget,
                   paidCount, logged>>

\* G2ARetryService.schedule_retry_for_order: the task waits for its first turn
LegacyRetryTask == [Idle EXCEPT !.op = "legacy_retry", !.call = "sleep"]

\* lines 273-305: the answer of get_g2a_order_key, then the end of the handler
LegacyFetchResp(p, r, cart) ==
    /\ InFlight(p, "legacy_hook", "fetch")
    /\ LET s == IF r \in {"KEY", "KEYS"}
                THEN [procs[p].session EXCEPT !.delivered_key = "key", !.status = "complete"]
                ELSE procs[p].session
           q == CHOOSE x \in Procs : x # p
       IN /\ orders' = LegacySessionEnd(orders, s, cart)
          /\ procs' = IF r \in {"ORD03", "ORD05"}
                      THEN [procs EXCEPT ![p] = Idle, ![q] = LegacyRetryTask]
                      ELSE [procs EXCEPT ![p] = Idle]
    /\ Op("legacy_step", "ok")
    /\ UNCHANGED <<items, emailQueue, retryLog, errorLog, script, now, budget,
                   paidCount, logged>>

\* retry_license_key_retrieval, lines 32-49: the start of an attempt
LegacyRetryWake(p) ==
    /\ InFlight(p, "legacy_retry", "sleep")
    /\ IF orders[LegacyOrder].delivered_key # None \/ orders[LegacyOrder].g2a_order_id = None
       THEN procs' = [procs EXCEPT ![p] = Idle]
       ELSE procs' = [procs EXCEPT ![p].call = "key"]
    /\ Op("legacy_retry", "running")
    /\ UNCHANGED <<orders, items, emailQueue, retryLog, errorLog, script, now, budget,
                   paidCount, logged>>

\* lines 105-119: the attempts are used up
LegacyRetryExhausted(ords) == [ords EXCEPT ![LegacyOrder].status = "pending_delivery"]

\* lines 51-103: the answer of get_g2a_order_key in attempt procs[p].attempt
LegacyRetryResp(p, r) ==
    /\ InFlight(p, "legacy_retry", "key")
    /\ IF r \in {"KEY", "KEYS"}
       THEN /\ orders' = [orders EXCEPT ![LegacyOrder].delivered_key = "key"]
            /\ emailQueue' = LegacyQueueEmail(emailQueue)
            /\ procs' = [procs EXCEPT ![p] = Idle]
            /\ Op("legacy_retry", "key")
       ELSE IF r \notin {"ORD03", "NONE"}
       THEN /\ procs' = [procs EXCEPT ![p] = Idle]
            /\ Op("legacy_retry", "gave_up")
            /\ UNCHANGED <<orders, emailQueue>>
       ELSE IF procs[p].attempt < LegacyMaxRetries - 1
       THEN /\ procs' = [procs EXCEPT ![p].call = "sleep", ![p].attempt = @ + 1]
            /\ Op("legacy_retry", "running")
            /\ UNCHANGED <<orders, emailQueue>>
       ELSE /\ orders' = LegacyRetryExhausted(orders)
            /\ procs' = [procs EXCEPT ![p] = Idle]
            /\ Op("legacy_retry", "exhausted")
            /\ UNCHANGED emailQueue
    /\ UNCHANGED <<items, retryLog, errorLog, script, now, budget, paidCount, logged>>

\* ------------------------------------------------------------------------
\* The email queue: queue_email and the sweep EmailQueueService.process_queue
\* (SimpleEmailQueueService.process_queue is the same procedure in SQL).  The
\* sweep runs in handler slot 2.  A retry time is "later" until the delay has
\* passed and "reached" from then on.
\* ------------------------------------------------------------------------
EmailWorkerSlot == 2
Priorities == {1, 2, 3}
BatchSizes == {1, 2}

\* queue_email called with a priority of the caller's choice
QueueEmailDirect(type, priority) ==
    /\ budget > 0
    /\ budget' = budget - 1
    /\ emailQueue' = Append(emailQueue, EmailRow(1, type, priority, Len(emailQueue) + 1))
    /\ Op("queue_email", "ok")
    /\ UNCHANGED <<orders, items, retryLog, errorLog, procs, script, now, paidCount, logged>>

\* a selection that also takes the rows already sent
DueAlsoSent(row) ==
    /\ row.status \in {"pending", "failed", "sent"}
    /\ row.next_retry_at \in {None, "reached"}
    /\ row.attempts < row.max_retries

\* process_queue, lines 84-92: the rows a sweep may take
Due(row) ==
    /\ row.status \in {"pending", "failed"}
    /\ row.next_retry_at \in {None, "reached"}
    /\ row.attempts < row.max_retries

DueRows(q) == {n \in DOMAIN q : Due(q[n])}

\* an ordering by creation time alone
SortsBeforeByAge(q, m, n) == q[m].created_at < q[n].created_at

\* lines 93-96: ORDER BY priority ASC, created_at ASC
SortsBefore(q, m, n) ==
    \/ q[m].priority < q[n].priority
    \/ q[m].priority = q[n].priority /\ q[m].created_at < q[n].created_at

\* line 96: LIMIT batch_size on the ordered rows
Batch(q, size) ==
    {n \in DueRows(q) : Cardinality({m \in DueRows(q) : SortsBefore(q, m, n)}) < size}

\* the row of the set S that the loop of line 98 reaches first
FirstOf(q, S) == CHOOSE n \in S : \A m \in S \ {n} : ~SortsBefore(q, m, n)

EmailRetryLogRow(row) ==
    [order_item_id |-> 0, retry_type |-> "email_sending", attempt_number |-> row.attempts + 1,
     max_attempts |-> row.max_retries, status |-> "pending"]

\* lines 98-127: log the attempt, mark the first row of S sending, send it
SweepSend(p, q, rl, S) ==
    LET n == FirstOf(q, S) IN
    /\ retryLog' = Append(rl, EmailRetryLogRow(q[n]))
    /\ emailQueue' = [q EXCEPT ![n].status = "sending", ![n].attempts = @ + 1]
    /\ procs' = [procs EXCEPT ![p] = [Idle EXCEPT !.op = "sweep", !.call = "send", !.item = n,
                                                  !.log = Len(rl) + 1, !.pend = S \ {n}]]

\* the sweep starts: select the batch and send its first row
ProcessQueue(p, size) ==
    /\ procs[p].op = "idle"
    /\ IF Batch(emailQueue, size) = {}
       THEN /\ Op("sweep", "empty")
            /\ UNCHANGED <<emailQueue, retryLog, procs>>
       ELSE /\ SweepSend(p, emailQueue, retryLog, Batch(emailQueue, size))
            /\ Op("sweep", "sending")
    /\ UNCHANGED <<orders, items, errorLog, script, now, budget, paidCount, logged>>

\* lines 129-179: the outcome of send_email for the row in hand
SendOutcome(row, ok) ==
    IF ok THEN [row EXCEPT !.status = "sent"]
    ELSE IF row.attempts >= row.max_retries THEN [row EXCEPT !.status = "failed"]
    ELSE [row EXCEPT !.status = "pending", !.next_retry_at = "later"]

\* send_email has answered: record the outcome, go on to the next row of the batch
SendResp(p, ok) ==
    /\ InFlight(p, "sweep", "send")
    /\ LET n == procs[p].item
           q == [emailQueue EXCEPT ![n] = SendOutcome(@, ok)]
           rl == [retryLog EXCEPT ![procs[p].log].status = IF ok THEN "success" ELSE "failed"]
       IN IF procs[p].pend = {}
          THEN /\ emailQueue' = q
               /\ retryLog' = rl
               /\ procs' = [procs EXCEPT ![p] = Idle]
               /\ Op("sweep", "done")
          ELSE /\ SweepSend(p, q, rl, procs[p].pend)
               /\ Op("sweep", "sending")
    /\ UNCHANGED <<orders, items, errorLog, script, now, budget, paidCount, logged>>

\* the worker process stops while send_email is awaited: what is committed stays
WorkerStops(p) ==
    /\ InFlight(p, "sweep", "send")
    /\ budget > 0
    /\ budget' = budget - 1
    /\ procs' = [procs EXCEPT ![p] = Idle]
    /\ Op("sweep", "stopped")
    /\ UNCHANGED <<orders, items, emailQueue, retryLog, errorLog, script, now,
                   paidCount, logged>>

\* the retry delays of lines 162-163 have passed
RetryTimeReached ==
    /\ \E n \in DOMAIN emailQueue : emailQueue[n].next_retry_at = "later"
    /\ emailQueue' = [n \in DOMAIN emailQueue |->
                        IF emailQueue[n].next_retry_at = "later"
                        THEN [emailQueue[n] EXCEPT !.next_retry_at = "reached"]
                        ELSE emailQueue[n]]
    /\ Op("clock", "ok")
    /\ UNCHANGED <<orders, items, retryLog, errorLog, procs, script, now, budget,
                   paidCount, logged>>

\* ------------------------------------------------------------------------
\* Initial states and specifications
\* ------------------------------------------------------------------------
NewOrder(t) ==
    [status |-> "pending", payment_status |-> "pending", stripe_payment_intent_id |-> None,
     created_at |-> t, g2a_order_id |-> None, g2a_transaction_id |-> None,
     delivered_key |-> None]
NewItem == [g2a_order_id |-> None, g2a_transaction_id |-> None, delivered_key |-> None,
            status |-> "pending"]

\* Two orders just created, order 2 one clock step after order 1.
InitRows ==
    /\ orders = [o \in Orders |-> NewOrder(IF o = 1 THEN 0 ELSE TickHours)]
    /\ items = [i \in Items |-> NewItem]
    /\ emailQueue = <<>>
    /\ retryLog = <<>>
    /\ errorLog = <<>>
    /\ procs = [p \in Procs |-> Idle]
    /\ paidCount = 0
    /\ logged = [k \in ErrKeys |-> 0]
    /\ lastOp = [name |-> "init", result |-> "ok", item |-> 0]

AnyResponse == [i \in Items |-> <<KeyResponses>>]

\* ---- Spec: payment events and key retrieval on order 1, handlers overlapping ----
Init ==
    /\ InitRows
    /\ script = AnyResponse
    /\ now = TickHours
    /\ budget = MaxOps

HookSteps(p) ==
    \/ \E r \in CreateResponses : HookCreateResp(p, r)
    \/ \E r \in PayResponses : HookPayResp(p, r)
    \/ \E r \in KeyResponses : HookFetchResp(p, r)
    \/ \E r \in KeyResponses : HookFreshResp(p, r)

Next ==
    \/ \E pi \in Intents : CreatePaymentIntent(pi)
    \/ \E p \in Procs, pi \in Intents, meta \in MetaIds : WebhookSucceeded(p, pi, meta)
    \/ \E pi \in Intents : WebhookFailed(pi)
    \/ \E p \in Procs : HookSteps(p)
    \/ \E p \in Procs : GetMultiItemLicenseKeys(p)
    \/ \E p \in Procs, r \in KeyResponses : KeysFetchResp(p, r)

Spec == Init /\ [][Next]_vars

\* ---- SpecReplay: one payment intent, its succeeded event delivered again and again ----
InitReplay ==
    /\ InitRows
    /\ script = AnyResponse
    /\ now = TickHours
    /\ budget = MaxReplayOps

NextReplay ==
    \/ CreatePaymentIntent("pi_1")
    \/ \E p \in Procs : WebhookSucceeded(p, "pi_1", 0)
    \/ \E p \in Procs : HookSteps(p)

SpecReplay == InitReplay /\ [][NextReplay]_vars

\* ---- SpecRetry: the provider's key responses follow one of two scripts ----
AlwaysNotReady == [i \in Items |-> <<{"ORD03"}>>]
KeyAfterThree ==
    [i \in Items |-> IF i = 1 THEN <<{"KEY"}>>
                     ELSE <<{"ORD03"}, {"ORD03"}, {"ORD03"}, {"KEY"}>>]

InitRetry ==
    /\ InitRows
    /\ script \in {AlwaysNotReady, KeyAfterThree}
    /\ now = TickHours
    /\ budget = MaxRetryOps

NextRetry ==
    \/ \E p \in Procs, pi \in Intents : WebhookSucceeded(p, pi, 1)
    \/ \E p \in Procs, r \in CreateResponses : HookCreateResp(p, r)
    \/ \E p \in Procs, r \in PayResponses : HookPayResp(p, r)
    \/ \E p \in Procs, r \in KeyResponses : HookFetchResp(p, r)
    \/ \E p \in Procs, i \in Items : RetryStart(p, i)
    \/ \E p \in Procs, r \in KeyResponses : RetryFetchResp(p, r)
    \/ \E p \in Procs : GetMultiItemLicenseKeys(p)
    \/ \E p \in Procs, r \in KeyResponses : KeysFetchResp(p, r)

SpecRetry == InitRetry /\ [][NextRetry]_vars

\* ---- SpecAdmin: every operation that writes an order, one handler at a time ----
InitAdmin ==
    /\ InitRows
    /\ script = AnyResponse
    /\ now = ExpiryHours + TickHours
    /\ budget = MaxAdminOps

NextAdmin ==
    \/ \E pi \in Intents : CreatePaymentIntent(pi)
    \/ \E pi \in Intents, meta \in MetaIds : WebhookSucceeded(1, pi, meta)
    \/ \E pi \in Intents : WebhookFailed(pi)
    \/ HookSteps(1)
    \/ GetMultiItemLicenseKeys(1)
    \/ \E r \in KeyResponses : KeysFetchResp(1, r)
    \/ \E i \in Items : RetryStart(1, i)
    \/ \E r \in KeyResponses : RetryFetchResp(1, r)
    \/ \E o \in Orders, s \in OrderStatus : UpdateOrderStatus(o, s)
    \/ \E o \in Orders : CancelOrder(o)
    \/ ExpireAllPendingOrders

SpecAdmin == InitAdmin /\ [][NextAdmin]_vars

\* ---- SpecSweep: the clock, the expiry sweep, the admin operations, one payment ----
InitSweep ==
    /\ InitRows
    /\ script = AnyResponse
    /\ now = TickHours
    /\ budget = MaxSweepOps

NextSweep ==
    \/ Tick
    \/ WebhookSucceeded(1, "pi_1", 1)
    \/ HookSteps(1)
    \/ ExpireAllPendingOrders
    \/ \E o \in Orders, s \in OrderStatus : UpdateOrderStatus(o, s)
    \/ \E o \in Orders : CancelOrder(o)

SpecSweep == InitSweep /\ [][NextSweep]_vars

\* ---- SpecErr: the error log on its own ----
InitErr ==
    /\ InitRows
    /\ script = AnyResponse
    /\ now = TickHours
    /\ budget = MaxErrOps

NextErr ==
    \/ \E k \in ErrKeys, sev \in Severities : LogError(k, sev)
    \/ \E n \in 1..MaxErrOps, st \in {"recovered", "quarantined", "ignored"},
          res \in BOOLEAN : UpdateRecoveryStatus(n, st, res)

SpecErr == InitErr /\ [][NextErr]_vars

\* ---- SpecLegacy: payment events on the legacy order 2 and its retry task ----
\* Order 2 has its payment intent; create_order may have placed its G2A order.
InitLegacy ==
    /\ \E g \in {None, "g2a"} :
          orders = [o \in Orders |->
                      IF o = LegacyOrder
                      THEN [NewOrder(TickHours) EXCEPT !.stripe_payment_intent_id = "pi_2",
                                                       !.g2a_order_id = g]
                      ELSE NewOrder(0)]
    /\ items = [i \in Items |-> NewItem]
    /\ emailQueue = <<>>
    /\ retryLog = <<>>
    /\ errorLog = <<>>
    /\ procs = [p \in Procs |-> Idle]
    /\ paidCount = 0
    /\ logged = [k \in ErrKeys |-> 0]
    /\ lastOp = [name |-> "init", result |-> "ok", item |-> 0]
    /\ script = AnyResponse
    /\ now = TickHours
    /\ budget = MaxLegacyOps

NextLegacy ==
    \/ \E pi \in Intents : LegacyWebhookSucceeded(pi)
    \/ \E r \in CreateResponses, cart \in BOOLEAN : LegacyCreateResp(1, r, cart)
    \/ \E r \in PayResponses, cart \in BOOLEAN : LegacyPayResp(1, r, cart)
    \/ \E r \in LegacyKeyResponses, cart \in BOOLEAN : LegacyFetchResp(1, r, cart)
    \/ \E p \in Procs : LegacyRetryWake(p)
    \/ \E p \in Procs, r \in LegacyKeyResponses : LegacyRetryResp(p, r)

SpecLegacy == InitLegacy /\ [][NextLegacy]_vars


\* ---- SpecWebhook: requests to the webhook endpoint with their signature header ----
InitWebhook ==
    /\ InitRows
    /\ script = AnyResponse
    /\ now = TickHours
    /\ budget = MaxWebhookOps

NextWebhook ==
    \/ CreatePaymentIntent("pi_1")
    \/ \E sig \in SignatureHeaders, type \in EventTypes, pi \in Intents, meta \in MetaIds :
          StripeWebhook(1, sig, type, pi, meta)
    \/ HookSteps(1)

SpecWebhook == InitWebhook /\ [][NextWebhook]_vars

\* every awaited G2A call of a running handler is answered; no new request need come
SpecWebhookFair == SpecWebhook /\ WF_vars(HookSteps(1))

\* ---- SpecEmail: the email queue of a fulfilled order, its sweep, new requests ----
\* Order 1 is paid and complete with both keys and its first email is queued.
InitEmail ==
    /\ orders = [o \in Orders |->
                   IF o = 1
                   THEN [NewOrder(0) EXCEPT !.status = "complete", !.payment_status = "paid",
                                            !.stripe_payment_intent_id = "pi_1"]
                   ELSE NewOrder(TickHours)]
    /\ items = [i \in Items |-> [g2a_order_id |-> "g2a", g2a_transaction_id |-> "txn",
                                 delivered_key |-> "key", status |-> "complete"]]
    /\ emailQueue = QueueEmail(<<>>, "multi_license_key")
    /\ retryLog = <<>>
    /\ errorLog = <<>>
    /\ procs = [p \in Procs |-> Idle]
    /\ paidCount = 1
    /\ logged = [k \in ErrKeys |-> 0]
    /\ lastOp = [name |-> "init", result |-> "ok", item |-> 0]
    /\ script = AnyResponse
    /\ now = TickHours
    /\ budget = MaxEmailOps

SweepSteps ==
    \/ \E size \in BatchSizes : ProcessQueue(EmailWorkerSlot, size)
    \/ \E ok \in BOOLEAN : SendResp(EmailWorkerSlot, ok)
    \/ RetryTimeReached

NextEmail ==
    \/ \E type \in EmailTypes, pr \in Priorities : QueueEmailDirect(type, pr)
    \/ GetMultiItemLicenseKeys(1)
    \/ WebhookSucceeded(1, "pi_1", 0)
    \/ WorkerStops(EmailWorkerSlot)
    \/ SweepSteps

SpecEmail == InitEmail /\ [][NextEmail]_vars

\* the sweep is scheduled again and again, send_email answers, time passes
SpecEmailFair == SpecEmail /\ WF_vars(SweepSteps)

\* ---- SpecQueue: the sweep over every queue of MaxRows rows ----
\* What earlier requests and sweeps leave of a row: not yet tried, waiting for
\* its retry time after a failed attempt, or sent.
RowShapes ==
    {[status |-> "pending", attempts |-> 0, next_retry_at |-> None],
     [status |-> "pending", attempts |-> 1, next_retry_at |-> "later"],
     [status |-> "sent", attempts |-> 1, next_retry_at |-> None]}

QueuedRow(seq, priority, shape) ==
    [EmailRow(1, "license_key", priority, seq) EXCEPT
        !.status = shape.status, !.attempts = shape.attempts,
        !.next_retry_at = shape.next_retry_at]

InitQueue ==
    /\ orders = [o \in Orders |-> NewOrder(IF o = 1 THEN 0 ELSE TickHours)]
    /\ items = [i \in Items |-> NewItem]
    /\ retryLog = <<>>
    /\ errorLog = <<>>
    /\ procs = [p \in Procs |-> Idle]
    /\ paidCount = 0
    /\ logged = [k \in ErrKeys |-> 0]
    /\ lastOp = [name |-> "init", result |-> "ok", item |-> 0]
    /\ \E f \in [1..MaxRows -> Priorities \X RowShapes] :
          emailQueue = [n \in 1..MaxRows |-> QueuedRow(n, f[n][1], f[n][2])]
    /\ script = AnyResponse
    /\ now = TickHours
    /\ budget = 0

SpecQueue == InitQueue /\ [][SweepSteps]_vars

\* ------------------------------------------------------------------------
\* Properties
\* ------------------------------------------------------------------------
AllIdle == \A p \in Procs : procs[p].op = "idle"
KeyOrComplete(i) == items[i].delivered_key # None \/ items[i].status = "complete"
RetryRowsOf(i) == {n \in 1..Len(retryLog) : retryLog[n].order_item_id = i}
EmailsOfType(t) == {k \in 1..Len(emailQueue) : emailQueue[k].email_type = t}

\* C1 (Spec): once the handlers that mutate order items (payment success with
\* the multi-item flow, on-demand key retrieval) have returned, order 1, which
\* has items, has status complete exactly when every item has status complete.
C1_CompleteIffAllItemsComplete ==
    AllIdle /\ lastOp.name \in {"webhook", "hook_step", "keys"}
        => (orders[1].status = "complete" <=> AllItemsComplete(items))

\* C2 (Spec): in every reachable state an order item whose delivered_key is
\* set has status complete.
C2_KeyImpliesComplete ==
    \A i \in Items : items[i].delivered_key # None => items[i].status = "complete"

\* C3 (Spec): a succeeded event handled for order 1 when it is already paid
\* and every item has its key or is complete puts no G2A call in flight,
\* changes no order item and no retry log row, and queues the notification
\* only if the order has no email row yet.
C3_ReplayShortCircuits ==
    [][\A p \in Procs, pi \in Intents, meta \in MetaIds :
          (/\ WebhookSucceeded(p, pi, meta)
           /\ lastOp'.result \in {"found", "linked"}
           /\ orders[1].payment_status = "paid"
           /\ \A i \in Items : KeyOrComplete(i))
          => /\ procs' = procs
             /\ items' = items
             /\ retryLog' = retryLog
             /\ IF EmailRowsOf(emailQueue, 1) # {} THEN emailQueue' = emailQueue
                ELSE \/ emailQueue' = emailQueue
                     \/ \E t \in EmailTypes : emailQueue' = QueueEmail(emailQueue, t)]_vars

\* the replayed event has been handled on the short path, all items being complete
C3_Witness ==
    /\ lastOp = [name |-> "webhook", result |-> "found", item |-> 0]
    /\ budget = 0
    /\ AllIdle
    /\ AllItemsComplete(items)
    /\ Len(emailQueue) = 1

\* C4 (SpecReplay): the succeeded event of one payment intent, handled any
\* number of times, one after the other or overlapping, moves order 1 into
\* paid once and leaves at most one email row of each type for the order.
C4_ReplayOnePaidTransitionOneEmail ==
    /\ paidCount <= 1
    /\ \A t \in EmailTypes : Cardinality(EmailsOfType(t)) <= 1

\* C5 (Spec): a succeeded event whose intent id no order stores and whose
\* metadata names an existing order links the order to the intent, marks it
\* paid and starts the multi-item flow.
C5_OrphanLinkedAndProcessed ==
    [][\A p \in Procs, pi \in Intents, meta \in MetaIds \cap Orders :
          (/\ WebhookSucceeded(p, pi, meta)
           /\ \A o \in Orders : orders[o].stripe_payment_intent_id # pi)
          => /\ orders'[meta].stripe_payment_intent_id = pi
             /\ orders'[meta].payment_status = "paid"
             /\ procs'[p].op = "hook"]_vars

\* C6 (SpecRetry): when every key fetch answers not ready and the background
\* retry of item i has used up its attempts, item i is failed and has exactly
\* ItemRetryMax retry log rows, the last of them failed.
C6_ExhaustedRetryLogsEveryAttempt ==
    \A i \in Items :
        (script = AlwaysNotReady
            /\ lastOp = [name |-> "retry", result |-> "exhausted", item |-> i])
        => /\ items[i].status = "failed"
           /\ Cardinality(RetryRowsOf(i)) = ItemRetryMax
           /\ \A n \in RetryRowsOf(i) :
                 (\A m \in RetryRowsOf(i) : m <= n) => retryLog[n].status = "failed"

\* C7 (SpecRetry): item 1's key comes on the first fetch, item 2's after three
\* not-ready answers; when both keys are stored and every handler has
\* returned, order 1 is complete, item 2 has exactly three retry log rows, the
\* last a success, and the order has exactly one email row, the multi-key one.
C7_ScenarioEndsComplete ==
    (/\ script[1] = <<{"KEY"}>>
     /\ AllIdle
     /\ \A i \in Items : items[i].delivered_key # None)
    => /\ orders[1].status = "complete"
       /\ Cardinality(RetryRowsOf(2)) = 3
       /\ \A n \in RetryRowsOf(2) :
             (\A m \in RetryRowsOf(2) : m <= n) => retryLog[n].status = "success"
       /\ Len(emailQueue) = 1
       /\ Cardinality(EmailsOfType("multi_license_key")) = 1

\* C8 (SpecSweep): a run of the expiry sweep sets to expired exactly the
\* orders that are pending and were created more than 24 hours before, leaves
\* every other order as it is, changes no order item and no email row, and a
\* second run at the same time would change nothing.
C8_SweepExpiresOldPendingOnly ==
    [][ExpireAllPendingOrders
          => /\ \A o \in Orders :
                  orders'[o] = IF orders[o].status = "pending"
                                    /\ now - orders[o].created_at > 24
                               THEN [orders[o] EXCEPT !.status = "expired"]
                               ELSE orders[o]
             /\ items' = items
             /\ emailQueue' = emailQueue
             /\ ExpirePendingOrdersOf(orders', now') = orders']_vars

\* a sweep has expired order 1 and left the pending order 2, aged exactly 24 hours
C8_Witness ==
    /\ lastOp.name = "sweep"
    /\ orders[1].status = "expired"
    /\ orders[2].status = "pending"
    /\ now - orders[2].created_at = 24

\* C9 (SpecErr): for every key (error_type, error_message, source, error_code)
\* logged n >= 1 times since an entry of that key was last resolved, there is
\* exactly one unresolved entry of that key and its duplicate_count is n.
UnresolvedOf(k) == {n \in 1..Len(errorLog) : errorLog[n].key = k /\ ~errorLog[n].is_resolved}

C9_DuplicatesCollapse ==
    \A k \in ErrKeys :
        IF logged[k] = 0 THEN UnresolvedOf(k) = {}
        ELSE \E n \in UnresolvedOf(k) :
                /\ UnresolvedOf(k) = {n}
                /\ errorLog[n].duplicate_count = logged[k]

\* one key logged three times, another key once
C9_Witness ==
    \E k1, k2 \in ErrKeys :
        /\ k1 # k2
        /\ logged[k1] = 3
        /\ logged[k2] = 1
        /\ Len(errorLog) = 2

\* C10 (SpecAdmin): no step takes an order from complete to pending, and
\* update_order_status(order, pending) on a complete order answers with an
\* error and leaves every order as it was.
C10_NoCompleteToPending ==
    [][\A o \in Orders :
          /\ orders[o].status = "complete" => orders'[o].status # "pending"
          /\ (UpdateOrderStatus(o, "pending") /\ orders[o].status = "complete")
                => /\ orders' = orders
                   /\ lastOp' = [name |-> "update_status", result |-> "error", item |-> 0]]_vars

\* the admin change to pending has been refused on order 1, completed by the G2A flow
C10_Witness ==
    /\ lastOp = [name |-> "update_status", result |-> "error", item |-> 0]
    /\ orders[1].status = "complete"
    /\ AllItemsComplete(items)

\* C11 (SpecAdmin): in every step of every operation that writes an order's
\* status, an order becomes cancelled only from pending and becomes expired
\* only from pending at an age of more than 24 hours; cancel_order on an
\* order that is not pending answers with an error and changes no order.
C11_CancelledExpiredOnlyFromPending ==
    [][\A o \in Orders :
          /\ (orders'[o].status = "cancelled" /\ orders[o].status # "cancelled")
                => orders[o].status = "pending"
          /\ (orders'[o].status = "expired" /\ orders[o].status # "expired")
                => orders[o].status = "pending" /\ now - orders[o].created_at > 24
          /\ (CancelOrder(o) /\ orders[o].status # "pending")
                => /\ orders' = orders
                   /\ lastOp' = [name |-> "cancel", result |-> "error", item |-> 0]]_vars

C13_UnverifiedRequestRejected ==
    [][\A sig \in SignatureHeaders \ {"valid"}, type \in EventTypes, pi \in Intents,
          meta \in MetaIds :
            StripeWebhook(1, sig, type, pi, meta)
               => /\ UNCHANGED <<orders, items, emailQueue>>
                  /\ lastOp'.result = "rejected"]_vars

\* C14 (SpecWebhook): handling a payment-failed event sets the payment_status
\* of the order with that intent id to failed and nothing else: every other
\* order field, the items, the email queue and the retry log are unchanged, no
\* call is started and no task is scheduled (the handler slots are unchanged);
\* for an intent id that matches no order no row changes.
C14_PaymentFailedFrame ==
    [][\A pi \in Intents :
          WebhookFailed(pi)
             => /\ UNCHANGED <<items, emailQueue, retryLog, procs>>
                /\ \A o \in Orders :
                      orders'[o] = IF orders[o].stripe_payment_intent_id = pi
                                   THEN [orders[o] EXCEPT !.payment_status = "failed"]
                                   ELSE orders[o]]_vars

\* a payment-failed event has reached order 1 after the order was marked paid
C14_Witness ==
    /\ lastOp.name = "payment_failed" /\ lastOp.result = "ok"
    /\ orders[1].payment_status = "failed"
    /\ orders[1].status = "paid"

\* C15 (SpecWebhook): a payment-succeeded event whose intent id matches no order
\* and whose metadata names no order that is still without an intent is dropped:
\* the webhook answers success without processing, and no order, order item or
\* email queue row changes.
C15_UnlinkableEventDropped ==
    [][\A p \in Procs, pi \in Intents, meta \in MetaIds :
          /\ WebhookSucceeded(p, pi, meta)
          /\ \A o \in Orders : orders[o].stripe_payment_intent_id # pi
          /\ ~(meta \in Orders /\ orders[meta].stripe_payment_intent_id = None)
          => /\ UNCHANGED <<orders, items, emailQueue>>
             /\ lastOp' = [name |-> "webhook", result |-> "dropped", item |-> 0]]_vars

\* an event was dropped although order 1 has a payment intent (another one)
C15_Witness ==
    /\ lastOp.name = "webhook" /\ lastOp.result = "dropped"
    /\ orders[1].stripe_payment_intent_id # None

\* C16 (Spec): repeated or concurrent enqueue requests for the same email type,
\* order and recipient (the order's user) leave one pending email queue row for
\* that key: no two pending rows have the same email_type and order_id.
C16_OnePendingRowPerKey ==
    \A m, n \in DOMAIN emailQueue :
        /\ emailQueue[m].status = "pending" /\ emailQueue[n].status = "pending"
        /\ emailQueue[m].email_type = emailQueue[n].email_type
        /\ emailQueue[m].order_id = emailQueue[n].order_id
        => m = n

\* C17 (SpecEmail): once an email queue row of some (email_type, order_id) has
\* status sent, no later request and no later sweep starts another external
\* send for that key: no step moves a row into sending while another row of the
\* same email_type and order_id is sent.
C17_SentKeyNotSentAgain ==
    [][\A n \in DOMAIN emailQueue :
          emailQueue[n].status # "sending" /\ emailQueue'[n].status = "sending"
             => ~\E m \in DOMAIN emailQueue :
                    /\ m # n
                    /\ emailQueue[m].status = "sent"
                    /\ emailQueue[m].email_type = emailQueue[n].email_type
                    /\ emailQueue[m].order_id = emailQueue[n].order_id]_vars

\* C18 (SpecEmailFair): delivery is at-least-once: with the sweep scheduled
\* fairly, every queued email eventually has status sent or failed, also when a
\* worker stopped after marking the row sending and before recording the outcome.
C18_EveryEmailSentOrFailed ==
    \A n \in 1..(MaxEmailOps + 1) :
        (n \in DOMAIN emailQueue)
           ~> (n \in DOMAIN emailQueue /\ emailQueue[n].status \in {"sent", "failed"})

\* C19 (SpecQueue): each sweep takes the due rows in order of ascending priority
\* number and, within one priority, ascending creation time: no row is in the
\* batch of a sweep while a due row that sorts before it is left out, and the
\* rows of the batch are sent in that order.
C19_BatchInPriorityThenFifoOrder ==
    [][procs'[EmailWorkerSlot].op = "sweep"
         => LET w == procs'[EmailWorkerSlot]
                started == procs[EmailWorkerSlot].op = "idle"
                isDue(m) == /\ emailQueue[m].status \in {"pending", "failed"}
                            /\ emailQueue[m].next_retry_at \in {None, "reached"}
                            /\ emailQueue[m].attempts < emailQueue[m].max_retries
                before(m, n) ==
                    \/ emailQueue[m].priority < emailQueue[n].priority
                    \/ /\ emailQueue[m].priority = emailQueue[n].priority
                       /\ emailQueue[m].created_at < emailQueue[n].created_at
            IN /\ \A m \in w.pend : ~before(m, w.item)
               /\ started =>
                    \A n \in w.pend \cup {w.item}, m \in DOMAIN emailQueue :
                        isDue(m) /\ before(m, n) => m \in w.pend \cup {w.item}]_vars

\* a sweep has taken a high-priority row ahead of an older due row of lower
\* priority, which the batch size left out
C19_Witness ==
    /\ procs[EmailWorkerSlot].op = "sweep"
    /\ lastOp.result = "sending"
    /\ \E m \in DOMAIN emailQueue :
          /\ Due(emailQueue[m])
          /\ m \notin procs[EmailWorkerSlot].pend
          /\ emailQueue[m].created_at < emailQueue[procs[EmailWorkerSlot].item].created_at
          /\ emailQueue[m].priority > emailQueue[procs[EmailWorkerSlot].item].priority

\* C20 (SpecRetry): when the key retry of an item has used up its attempts, the
\* item is failed and the error log holds an entry recording the exhaustion.
C20_ExhaustionFailedAndLogged ==
    (lastOp.name = "retry" /\ lastOp.result = "exhausted")
        => /\ items[lastOp.item].status = "failed"
           /\ Len(errorLog) > 0

\* C21 (Spec): when the key fetch of the G2A flow answers with a code other
\* than a key, not ready or already delivered (the invalid-id code or any other
\* code), the item's status becomes failed and an error log entry is written.
C21_FatalCodeFailsAndLogs ==
    [][\A p \in Procs, r \in {"ORD01", "HTTP_402", "OTHER"} :
          HookFetchResp(p, r)
             => /\ items'[procs[p].item].status = "failed"
                /\ Len(errorLog') > Len(errorLog)]_vars

\* C22 (SpecWebhookFair): after a key fetch answered not ready or timed out, the
\* fetch is retried without a further request until a key arrives or the
\* attempts are used up: an item in status pending_key eventually becomes
\* complete or failed.
C22_PendingKeyEventuallySettled ==
    \A i \in Items :
        (items[i].status = "pending_key") ~> (items[i].status \in {"complete", "failed"})

\* C23 (Spec): an order item's status becomes failed only when its key retry
\* has used up its attempts or a key fetch for it answered a fatal code; an
\* unsuccessful create or pay call does not make the item failed.
C23_FailedOnlyByExhaustionOrFatalCode ==
    [][\A i \in Items :
          (items'[i].status = "failed" /\ items[i].status # "failed")
             => \/ lastOp' = [name |-> "retry", result |-> "exhausted", item |-> i]
                \/ \E p \in Procs, r \in {"ORD01", "HTTP_402", "OTHER"} :
                      /\ InFlight(p, "hook", "fetch")
                      /\ procs[p].item = i
                      /\ HookFetchResp(p, r)]_vars

\* C24 (SpecAdmin): get_multi_item_license_keys issues at most 3 key fetches for
\* an item without a key; when it answers with a result and not an error, every
\* item of the order is in exactly one of the ready and pending lists; for an
\* order that is not paid it answers with an error, makes no provider call and
\* changes no row.
C24_KeysBoundedAndPartitioned ==
    [][\A p \in Procs :
          /\ GetMultiItemLicenseKeys(p) /\ orders[1].payment_status # "paid"
                => /\ lastOp' = [name |-> "keys", result |-> "ORDER_NOT_PAID", item |-> 0]
                   /\ UNCHANGED <<orders, items, emailQueue, retryLog, procs>>
          /\ GetMultiItemLicenseKeys(p) /\ orders[1].payment_status = "paid"
                => LET res == KeysFromItem(Db, 1, {}, {})
                   IN (res.call = None /\ res.result = "ok")
                         => res.ready \cap res.pend = {} /\ res.ready \cup res.pend = Items
          /\ \A r \in KeyResponses :
                KeysFetchResp(p, r)
                   => LET res == KeysOnFetch(Db, procs[p].item, procs[p].attempt, r,
                                             procs[p].ready, procs[p].pend, procs[p].imp)
                      IN /\ (res.call = None /\ res.result = "ok")
                               => /\ res.ready \cap res.pend = {}
                                  /\ res.ready \cup res.pend = Items
                         /\ procs'[p].op = "keys" => procs'[p].attempt < 3]_vars

\* a request has answered with item 1 ready and item 2 pending after its fetches
C24_Witness ==
    /\ lastOp.name = "keys" /\ lastOp.result = "ok"
    /\ items[1].delivered_key # None
    /\ items[2].delivered_key = None /\ items[2].g2a_order_id # None

\* ---- SpecResume: a handler may stop at an awaited call; the event comes again ----
\* _process_multi_item_g2a_flow commits after each stage (lines 336, 350, 364), so
\* a handler that stops while a call is in flight leaves the committed rows behind.
HookStops(p) ==
    /\ procs[p].op = "hook"
    /\ procs[p].call # None
    /\ procs' = [procs EXCEPT ![p] = Idle]
    /\ Op("hook_stop", "ok")
    /\ UNCHANGED <<orders, items, emailQueue, retryLog, errorLog, script, now, budget,
                   paidCount, logged>>

NextResume ==
    \/ NextWebhook
    \/ HookStops(1)

SpecResume == InitWebhook /\ [][NextResume]_vars

\* the first item that has no key and is not complete, 0 if there is none
FirstUnfinished(its) ==
    LET S == {i \in Items : its[i].delivered_key = None /\ its[i].status # "complete"}
    IN IF S = {} THEN 0 ELSE CHOOSE i \in S : \A j \in S : i <= j

\* C25 (SpecResume): a handler issues no create call for an item whose G2A order
\* id is stored and no pay call for an item whose transaction id is stored; when
\* the payment event comes again for a paid order that a stopped run left with an
\* unfinished item, the handler runs again and its first call is for a stage that
\* is missing (no fetch for an item with a key), at or before that item.
C25_ResumesAfterCheckpoint ==
    [][/\ \A p \in Procs :
           (procs'[p].op = "hook" /\ procs'[p] # procs[p])
                 => /\ procs'[p].call = "create"
                          => items'[procs'[p].item].g2a_order_id = None
                    /\ procs'[p].call = "pay"
                          => /\ items'[procs'[p].item].g2a_transaction_id = None
                             /\ items'[procs'[p].item].g2a_order_id # None
                    /\ procs'[p].call = "fetch"
                          => /\ items'[procs'[p].item].delivered_key = None
                             /\ items'[procs'[p].item].status # "complete"
       /\ (/\ budget' < budget
               /\ lastOp'.name = "webhook" /\ lastOp'.result = "found"
               /\ orders[1].payment_status = "paid"
               /\ FirstUnfinished(items) # 0)
           => LET i == FirstUnfinished(items)
              IN \E p \in Procs :
                    /\ procs[p].op = "idle"
                    /\ procs'[p].op = "hook"
                    /\ procs'[p].call \in {"create", "pay", "fetch"}
                    /\ procs'[p].item <= i]_vars

\* the event came again after a run stopped between create and the key fetch of
\* item 1: the handler is at pay for item 1, whose G2A order id is stored
C25_Witness ==
    /\ lastOp.name = "webhook" /\ lastOp.result = "found"
    /\ InFlight(1, "hook", "pay") /\ procs[1].item = 1
    /\ items[1].status = "processing"
    /\ items[1].g2a_order_id # None

\* C26 (SpecWebhook): a run of the handler leaves every item that is already
\* complete as it is (status, key, G2A ids) and issues no call for it.
C26_CompleteItemsUntouched ==
    [][\A i \in Items :
          (items[i].status = "complete" /\ items[i].delivered_key # None)
             => /\ items'[i] = items[i]
                /\ \A p \in Procs :
                      (procs'[p].op = "hook" /\ procs'[p].call # None
                          /\ procs'[p] # procs[p])
                         => procs'[p].item # i]_vars

\* C27 (Spec): when two runs of the handler for one order overlap, pay is called
\* at most once for an item: two pay calls for the same item are never in flight
\* together.
C27_PayAtMostOncePerItem ==
    \A p, q \in Procs :
        (p # q /\ InFlight(p, "hook", "pay") /\ InFlight(q, "hook", "pay"))
           => procs[p].item # procs[q].item

\* ---- SpecRace: the expiry sweep as its two database round trips ----
\* expire_pending_orders reads the rows to expire (query.all(), line 208) and
\* writes them at commit (line 213) with an UPDATE by primary key; another
\* transaction may commit between the two.
ExpireSelects(p) ==
    /\ budget > 0
    /\ FreeSlot(p)
    /\ budget' = budget - 1
    /\ procs' = [procs EXCEPT ![p] = [Idle EXCEPT !.op = "sweep",
                                                  !.pend = OrdersToExpire(orders, now)]]
    /\ Op("sweep", "selected")
    /\ UNCHANGED <<orders, items, emailQueue, retryLog, errorLog, script, now,
                   paidCount, logged>>

ExpireCommits(p) ==
    /\ procs[p].op = "sweep"
    /\ orders' = [o \in Orders |-> IF o \in procs[p].pend
                                   THEN [orders[o] EXCEPT !.status = "expired"]
                                   ELSE orders[o]]
    /\ procs' = [procs EXCEPT ![p] = Idle]
    /\ Op("sweep", "ok")
    /\ UNCHANGED <<items, emailQueue, retryLog, errorLog, script, now, budget,
                   paidCount, logged>>

InitRace ==
    /\ InitRows
    /\ script = AnyResponse
    /\ now = ExpiryHours + TickHours
    /\ budget = MaxRaceOps

NextRace ==
    \/ \E p \in Procs : ExpireSelects(p)
    \/ \E p \in Procs : ExpireCommits(p)
    \/ \E p \in Procs, meta \in MetaIds : WebhookSucceeded(p, "pi_1", meta)
    \/ \E p \in Procs : HookSteps(p)
    \/ \E o \in Orders : CancelOrder(o)

SpecRace == InitRace /\ [][NextRace]_vars

\* C28 (SpecRace): the sweep's write is conditional on the order still being
\* pending: with a payment, a cancellation or another sweep running between its
\* read and its write, an order that has left pending is never set to expired.
C28_SweepWritesOnlyPending ==
    [][\A o \in Orders :
          (orders'[o].status = "expired" /\ orders[o].status # "expired")
             => orders[o].status = "pending"]_vars

\* ---- SpecLock: the admin operations beside a recomputation of the order status ----
\* update_order_status and cancel_order read the row FOR UPDATE (lines 372, 408) and
\* hold the lock to their commit, so each is one step.  The recomputation reads the
\* row without a lock (db.refresh, line 980) and writes at its commit (990, 994).
RecomputeReads(p) ==
    /\ budget > 0
    /\ FreeSlot(p)
    /\ budget' = budget - 1
    /\ procs' = [procs EXCEPT ![p] = [Idle EXCEPT !.op = "recompute",
                                                  !.session = Db]]
    /\ Op("recompute", "read")
    /\ UNCHANGED <<orders, items, emailQueue, retryLog, errorLog, script, now,
                   paidCount, logged>>

\* the UPDATE carries the status only when the decision taken on the rows read changes it
RecomputeCommits(p) ==
    /\ procs[p].op = "recompute"
    /\ LET read == procs[p].session
           new == UpdateOrderStatusIfAllItemsComplete(read).orders[1].status
       IN orders' = IF new # read.orders[1].status
                    THEN [orders EXCEPT ![1].status = new]
                    ELSE orders
    /\ procs' = [procs EXCEPT ![p] = Idle]
    /\ Op("recompute", "ok")
    /\ UNCHANGED <<items, emailQueue, retryLog, errorLog, script, now, budget,
                   paidCount, logged>>

InitLock ==
    /\ InitRows
    /\ script = AnyResponse
    /\ now = TickHours
    /\ budget = MaxLockOps

NextLock ==
    \/ \E o \in Orders, s \in OrderStatus : UpdateOrderStatus(o, s)
    \/ \E o \in Orders : CancelOrder(o)
    \/ \E p \in Procs : RecomputeReads(p)
    \/ \E p \in Procs : RecomputeCommits(p)

SpecLock == InitLock /\ [][NextLock]_vars

\* the status of order 1 after a recomputation that runs alone on status st
RecomputedStatus(st) ==
    UpdateOrderStatusIfAllItemsComplete([Db EXCEPT !.orders[1].status = st]).orders[1].status

\* the status after the admin operation named by op, with target t, run alone on status st
AdminStatus(op, t, st) ==
    IF op = "cancel"
    THEN IF CancelOrderResult([status |-> st]) = "ok" THEN "cancelled" ELSE st
    ELSE IF UpdateOrderStatusResult([status |-> st], t) = "ok" THEN t ELSE st

\* C29 (SpecLock): when an admin operation runs while a recomputation of the order
\* status is between its read and its write, no update is lost: the status after
\* the recomputation's commit is the one that running the two operations one after
\* the other, in one of the two orders, gives.
C29_AdminVsFlowSerialisable ==
    [][\A p \in Procs :
          (/\ RecomputeCommits(p)
           /\ \A q \in Procs : q # p => procs[q].op = "idle"
           /\ lastOp.name \in {"update_status", "cancel"}
           /\ lastOp.result = "ok")
             => LET read == procs[p].session.orders[1].status
                    cur == orders[1].status
                IN orders'[1].status
                      \in {RecomputedStatus(cur),
                           AdminStatus(lastOp.name, cur, RecomputedStatus(read))}]_vars

\* C30 (SpecRetry): while a background key fetch for an item is in flight, a
\* retry log row of that item carrying the attempt's number is already committed.
C30_AttemptLoggedBeforeCall ==
    \A p \in Procs :
        InFlight(p, "retry", "fetch")
           => \E n \in RetryRowsOf(procs[p].item) :
                 retryLog[n].attempt_number = procs[p].attempt + 1

\* C31 (SpecAdmin): an item handled for an already-delivered answer (ORD04) is
\* marked complete, and the placeholder becomes its delivered_key only in the
\* step that answers a fresh re-query of the key for that item.
C31_PlaceholderOnlyAfterFreshQuery ==
    [][\A i \in Items :
          (/\ items'[i].delivered_key = "KEY_ALREADY_DELIVERED_ORD04"
           /\ items[i].delivered_key # "KEY_ALREADY_DELIVERED_ORD04")
             => /\ items'[i].status = "complete"
                /\ \E p \in Procs :
                      /\ InFlight(p, "hook", "fresh")
                      /\ procs[p].item = i]_vars

NextSweeps ==
    \/ \E p \in Procs, size \in BatchSizes : ProcessQueue(p, size)
    \/ \E p \in Procs, ok \in BOOLEAN : SendResp(p, ok)
    \/ RetryTimeReached

SpecSweeps == InitQueue /\ [][NextSweeps]_vars

\* C33 (SpecSweeps): also with two sweeps running at once, a row is sent only
\* when its retry time is unset or reached and its attempts are below
\* max_retries, and the attempts of a row never exceed its max_retries.
C33_SendOnlyWhenDue ==
    [][\A n \in DOMAIN emailQueue :
          /\ emailQueue'[n].attempts <= emailQueue'[n].max_retries
          /\ emailQueue'[n].attempts > emailQueue[n].attempts
                => /\ emailQueue[n].next_retry_at # "later"
                   /\ emailQueue[n].attempts < emailQueue[n].max_retries]_vars

\* ---- SpecBackoff: the delay a task waits after its k-th failed attempt ----
\* email_queue_service.py:162 and simple_email_queue.py:135: 5 * 3 ** (attempts - 1) minutes
QueueRetryDelay(k) == 60 * 5 * 3 ^ (k - 1)

\* email_worker.py:189: min(300 * (2 ** attempts), 3600) seconds, attempts counted before this one
WorkerRetryDelay(k) ==
    LET d == 300 * 2 ^ (k - 1) IN IF d < 3600 THEN d ELSE 3600

\* g2a_retry_service.py:343: retry_delay_seconds * (2 ** attempt) seconds, attempt from 0
ItemRetryDelay(k) == 30 * 2 ^ (k - 1)

BackoffKinds == {"queue", "worker", "item"}

RetryDelay(kind, k) ==
    IF kind = "queue" THEN QueueRetryDelay(k)
    ELSE IF kind = "worker" THEN WorkerRetryDelay(k)
    ELSE ItemRetryDelay(k)

\* attempt k of a task of this kind has failed and more attempts are allowed:
\* the task waits for its delay (seconds)
BackoffStarts(p, kind, k) ==
    /\ procs[p].op = "idle"
    /\ procs' = [procs EXCEPT ![p] = [Idle EXCEPT !.op = "backoff", !.call = kind,
                                                  !.attempt = k,
                                                  !.session = [delay |-> RetryDelay(kind, k)]]]
    /\ Op("backoff", "waiting")
    /\ UNCHANGED <<orders, items, emailQueue, retryLog, errorLog, script, now, budget,
                   paidCount, logged>>

BackoffEnds(p) ==
    /\ procs[p].op = "backoff"
    /\ procs' = [procs EXCEPT ![p] = Idle]
    /\ Op("backoff", "over")
    /\ UNCHANGED <<orders, items, emailQueue, retryLog, errorLog, script, now, budget,
                   paidCount, logged>>

InitBackoff ==
    /\ InitRows
    /\ script = AnyResponse
    /\ now = TickHours
    /\ budget = 0

NextBackoff ==
    \/ \E p \in Procs, kind \in BackoffKinds, k \in 1..MaxBackoffAttempts :
          BackoffStarts(p, kind, k)
    \/ \E p \in Procs : BackoffEnds(p)

SpecBackoff == InitBackoff /\ [][NextBackoff]_vars

\* C34 (SpecBackoff): the delay after the k-th failed attempt is not shorter than
\* the delays after the earlier attempts and never exceeds the ceiling of one
\* hour, for the queue sweep, the email worker and the item key retry alike.
C34_DelayCappedAndMonotone ==
    \A p \in Procs :
        procs[p].op = "backoff"
           => /\ procs[p].session.delay <= 3600
              /\ \A j \in 1..procs[p].attempt :
                    RetryDelay(procs[p].call, j) <= procs[p].session.delay

\* C35 (SpecErr): after a report of severity critical has been logged, the
\* entry that took it, a new one or the unresolved entry of the same hash, is
\* quarantined.
C35_CriticalIsQuarantined ==
    [][\A k \in ErrKeys :
          LogError(k, "critical")
             => LET n == ExistingError(errorLog', DuplicateHash(k))
                IN n # 0 /\ errorLog'[n].is_quarantined]_vars

\* ---- SpecSend: EmailService.send_email and the mail transport ----
\* the max_retries argument of a call (the queue passes 1, the default is 3)
SendRetries == {0, 1, 3}
TransportOutcomes == {"ok", "raise"}

\* send_email, lines 35-47: the first attempt is handed to the transport
SendEmail(p, retries) ==
    /\ budget > 0
    /\ procs[p].op = "idle"
    /\ budget' = budget - 1
    /\ procs' = [procs EXCEPT ![p] = [Idle EXCEPT !.op = "send_email", !.call = "smtp",
                                                  !.attempt = 0,
                                                  !.session = [max_retries |-> retries]]]
    /\ Op("send_email", "running")
    /\ UNCHANGED <<orders, items, emailQueue, retryLog, errorLog, script, now,
                   paidCount, logged>>

\* lines 58-81: the transport has answered; an exception is caught, printed and,
\* while attempts are left, followed by a sleep and the next attempt
TransportResp(p, r) ==
    /\ InFlight(p, "send_email", "smtp")
    /\ IF r = "ok"
       THEN /\ procs' = [procs EXCEPT ![p] = Idle]
            /\ Op("send_email", "true")
       ELSE IF procs[p].attempt < procs[p].session.max_retries
       THEN /\ procs' = [procs EXCEPT ![p].attempt = @ + 1]
            /\ Op("send_email", "running")
       ELSE /\ procs' = [procs EXCEPT ![p] = Idle]
            /\ Op("send_email", "false")
    /\ UNCHANGED <<orders, items, emailQueue, retryLog, errorLog, script, now, budget,
                   paidCount, logged>>

InitSend ==
    /\ InitRows
    /\ script = AnyResponse
    /\ now = TickHours
    /\ budget = MaxSendOps

NextSend ==
    \/ \E p \in Procs, retries \in SendRetries : SendEmail(p, retries)
    \/ \E p \in Procs, r \in TransportOutcomes : TransportResp(p, r)

SpecSend == InitSend /\ [][NextSend]_vars

\* C36 (SpecSend): when the transport raises on every attempt, send_email
\* answers False to its caller and the error log then holds an entry of type
\* EMAIL_SEND_FAILURE.
C36_FailedSendIsLogged ==
    [][\A p \in Procs :
          (TransportResp(p, "raise") /\ procs'[p].op = "idle")
             => /\ lastOp' = [name |-> "send_email", result |-> "false", item |-> 0]
                /\ \E n \in DOMAIN errorLog' :
                      errorLog'[n].key.error_type = "EMAIL_SEND_FAILURE"]_vars

\* ---- SpecIntents: order 1 is given payment intents one after another, and the
\* ---- succeeded event of any intent issued so far can arrive
\* stripe.PaymentIntent.create answers a new id on every call
NextIntent(ords) ==
    IF ords[1].stripe_payment_intent_id = None THEN "pi_1" ELSE "pi_2"

\* the intents create_payment_intent has stored on order 1 so far
IssuedIntents(ords) ==
    CASE ords[1].stripe_payment_intent_id = None -> {}
      [] ords[1].stripe_payment_intent_id = "pi_1" -> {"pi_1"}
      [] OTHER -> {"pi_1", "pi_2"}

IssueIntent ==
    /\ orders[1].stripe_payment_intent_id # "pi_2"
    /\ CreatePaymentIntent(NextIntent(orders))

\* the succeeded event of an issued intent; its metadata names the order (line 66)
IntentSucceeded(p, pi) ==
    /\ pi \in IssuedIntents(orders)
    /\ WebhookSucceeded(p, pi, 1)

MaxIntentOps == 3

InitIntents ==
    /\ InitRows
    /\ script = AnyResponse
    /\ now = TickHours
    /\ budget = MaxIntentOps

NextIntents ==
    \/ IssueIntent
    \/ \E p \in Procs, pi \in Intents : IntentSucceeded(p, pi)
    \/ \E p \in Procs : HookSteps(p)

SpecIntents == InitIntents /\ [][NextIntents]_vars

\* C37 (SpecIntents): the succeeded event of every intent that create_payment_intent
\* issued for the order marks the order paid, also after a newer intent was issued
C37_IssuedIntentPaysOrder ==
    [][\A p \in Procs, pi \in Intents :
          IntentSucceeded(p, pi) => orders'[1].payment_status = "paid"]_vars

\* ---- SpecCompleted: SpecLock's operations, started on an order 1 that is complete ----
\* the rows after update_order_status(order 1, complete) on the new orders
InitCompleted ==
    /\ orders = [o \in Orders |->
                   IF o = 1 THEN [NewOrder(0) EXCEPT !.status = "complete"]
                   ELSE NewOrder(TickHours)]
    /\ items = [i \in Items |-> NewItem]
    /\ emailQueue = <<>>
    /\ retryLog = <<>>
    /\ errorLog = <<>>
    /\ procs = [p \in Procs |-> Idle]
    /\ paidCount = 0
    /\ logged = [k \in ErrKeys |-> 0]
    /\ lastOp = [name |-> "update_status", result |-> "ok", item |-> 0]
    /\ script = AnyResponse
    /\ now = TickHours
    /\ budget = MaxLockOps

SpecCompleted == InitCompleted /\ [][NextLock]_vars

\* C38 (SpecCompleted): order 1 has been complete; no sequence of admin status
\* updates, cancellations and recomputations brings its status to pending
C38_NeverPendingAfterComplete == orders[1].status # "pending"

\* C39 (SpecWebhook): no step changes an order's payment_status from paid to
\* failed or pending; a payment-failed event on a paid order leaves it paid
C39_PaidStaysPaid ==
    [][\A o \in Orders :
          orders[o].payment_status = "paid" => orders'[o].payment_status = "paid"]_vars

\* C40 (SpecWebhook): whenever a handler starts a provider pay call or a key
\* fetch for an item, the owning order's payment_status is paid
C40_CallsOnlyForPaidOrder ==
    [][\A p \in Procs :
          (/\ procs'[p].call \in {"pay", "fetch", "fresh"}
           /\ <<procs'[p].op, procs'[p].call, procs'[p].item, procs'[p].attempt>>
                 # <<procs[p].op, procs[p].call, procs[p].item, procs[p].attempt>>)
             => orders'[1].payment_status = "paid"]_vars

====
